---- MODULE Spec2Model ----
(***************************************************************************)
(* The interaction controller of the task assistant (src/assistant):       *)
(* TodoApp (todo_app.py), TaskScreen (task_screen.py), ReviewScreen        *)
(* (review_screen.py), Task (data_model.py) and the store                  *)
(* (persistence.py), as a state machine over the Textual message queues.   *)
(*                                                                         *)
(* Message pumps.  The App, every TaskScreen and the ReviewScreen each     *)
(* process their own FIFO queue; the pumps interleave freely.  A key       *)
(* press goes through the focused widget to the top screen's on_key at     *)
(* once (KeyPress) and, unless stopped there, bubbles into the App's       *)
(* queue, where TodoApp.on_key and then the key bindings of the screen     *)
(* that is on top at that moment handle it (AppStep).  A handler's return  *)
(* value never stops bubbling; only event.stop() does.                     *)
(***************************************************************************)
EXTENDS Integers, Sequences, FiniteSets, TLC

VARIABLES
    heap,            \* Task objects by identity: heap[id] is the record of task id
    tasks,           \* TodoApp.tasks: the collection, a sequence of task ids
    logs,            \* TodoApp.logs: the action log
    saved_tasks,     \* tasks.json: the list of to_dict records last written
    saved_logs,      \* logs.json: the log last written
    list_index,      \* main ListView.index: None or Some(i)
    rows,            \* number of TaskItem rows mounted in the main ListView
    handling_task,   \* TodoApp._handling_task_screen
    handling_review, \* TodoApp._handling_review_screen
    editing_task,    \* TodoApp._editing_task: a task id, or NoTask
    insert_above,    \* TodoApp._insert_above
    stack,           \* screens pushed above the default screen, bottom first
    review,          \* the ReviewScreen instance: tasks, decisions, list index
    appQ,            \* the App's message queue
    taskQ,           \* results posted to closed TaskScreens, not yet bubbled
    reviewQ,         \* the ReviewScreen's message queue
    after_refresh,   \* call_after_refresh(update_list_view) callbacks pending
    status,          \* "running", "exited" or "crashed"; across runs also
                     \* "start" (nothing loaded yet) and "loaded"
    keysLeft,        \* key presses the key source may still deliver
    did,             \* the Main Screen command the last step dispatched
    applied,         \* on_review_screen_review_complete ran and no key or
                     \* task screen result was handled by the App since
    disk,            \* the condition of tasks.json and of logs.json on disk
    submitted        \* Some(the Input values TaskScreen.action_submit read in
                     \* the last step), or None when it did not run

vars == <<heap, tasks, logs, saved_tasks, saved_logs, list_index, rows,
          handling_task, handling_review, editing_task, insert_above, stack,
          review, appQ, taskQ, reviewQ, after_refresh, status, keysLeft, did,
          applied, disk, submitted>>

---------------------------------------------------------------------------
(* Bounds of the model. *)

MaxKeys == 2       \* key presses per run
MaxInit == 2       \* tasks loaded from the store at start

---------------------------------------------------------------------------
(* Values. *)

None == <<>>
Some(i) == <<i>>
NoTask == 0
NoDate == <<>>

\* The date the model's date text denotes, as <<year, month, day>>.
TheDate == <<2025, 2, 1>>

\* Input.value of the three inputs of a TaskScreen when the user submits.
TypedInputs ==
    { [title |-> " N ", description |-> "x ", date |-> "01.02.2025"],
      [title |-> "M",   description |-> "",   date |-> "soon"],
      [title |-> "  ",  description |-> "x ", date |-> ""] }

\* str.strip() on the texts of the model.
Strip(s) ==
    CASE s = " N " -> "N"
      [] s = "x "  -> "x"
      [] s = "  "  -> ""
      [] OTHER     -> s

\* datetime.strptime(s, "%d.%m.%Y").date(): <<TRUE, date>>, or <<FALSE>> for ValueError.
StrptimeDMY(s) ==
    IF s = "01.02.2025" THEN <<TRUE, TheDate>> ELSE <<FALSE>>

\* date.strftime("%d.%m.%Y")
StrftimeDMY(d) == IF d = TheDate THEN "01.02.2025" ELSE "??.??.????"

\* A date before the year 1000, as the text "01.01.0999" denotes it.
OldDate == <<999, 1, 1>>

\* date.strftime("%Y-%m-%d"): the C library's %Y writes the year without
\* leading zeros (glibc), so a year below 1000 comes out with three digits.
StrftimeISO(d) ==
    CASE d = TheDate -> "2025-02-01"
      [] d = OldDate -> "999-01-01"
      [] OTHER       -> "????-??-??"

\* datetime.strptime(s, "%Y-%m-%d").date(): <<TRUE, date>>, or <<FALSE>> for
\* ValueError; %Y takes exactly four digits.
StrptimeISO(s) ==
    CASE s = "2025-02-01" -> <<TRUE, TheDate>>
      [] s = "0999-01-01" -> <<TRUE, OldDate>>
      [] OTHER            -> <<FALSE>>

\* Titles of the tasks loaded at start, by position in the file.
InitTitle(i) == <<"A", "B", "C", "D", "E">>[i]

\* Future dates of the tasks loaded at start, by position in the file: the
\* first one carries a date.
InitDate(i) == IF i = 1 THEN TheDate ELSE NoDate

\* Task(title, description, resolved, future_date)
Task(t, d, r, f) == [title |-> t, description |-> d, resolved |-> r, future_date |-> f]

\* Task.to_dict
to_dict(t) ==
    [title |-> t.title, description |-> t.description, resolved |-> t.resolved,
     future_date |-> IF t.future_date # NoDate THEN StrftimeISO(t.future_date) ELSE "null"]

\* Task.from_dict on a JSON object, a record over the keys it has: raised is
\* the KeyError of a key read with data[...] that is missing; future_date is
\* read with data.get and a text that does not parse leaves the date None.
from_dict(data) ==
    LET given == "future_date" \in DOMAIN data /\ data.future_date \notin {"null", ""}
        parsed == IF given THEN StrptimeISO(data.future_date) ELSE <<FALSE>>
        future_date == IF parsed[1] THEN parsed[2] ELSE NoDate
    IN  IF {"title", "description", "resolved"} \subseteq DOMAIN data
        THEN [raised |-> FALSE,
              value |-> Task(data.title, data.description, data.resolved, future_date)]
        ELSE [raised |-> TRUE]

\* save_tasks writes [t.to_dict() for t in tasks]
Saved(h, ts) == [i \in 1..Len(ts) |-> to_dict(h[ts[i]])]

\* log_action: the entry appended for a message (the timestamp is left out)
LogEntry(action, title) == <<action, title>>

---------------------------------------------------------------------------
(* Python list operations on sequences (indices from 0, as in the code). *)

At(s, i) == s[i + 1]

\* list.pop(i)
Pop(s, i) == SubSeq(s, 1, i) \o SubSeq(s, i + 2, Len(s))

\* list.insert(i, x) for 0 <= i <= len
Insert(s, i, x) == SubSeq(s, 1, i) \o <<x>> \o SubSeq(s, i + 1, Len(s))

\* s[i], s[j] = s[j], s[i]
Swap(s, i, j) ==
    [k \in 1..Len(s) |-> IF k = i + 1 THEN s[j + 1] ELSE IF k = j + 1 THEN s[i + 1] ELSE s[k]]

Min(a, b) == IF a < b THEN a ELSE b
Max(a, b) == IF a > b THEN a ELSE b

---------------------------------------------------------------------------
(* The state as one record, so that handlers compose as the code calls them. *)

Cur ==
    [heap |-> heap, tasks |-> tasks, logs |-> logs, saved_tasks |-> saved_tasks,
     saved_logs |-> saved_logs, list_index |-> list_index, rows |-> rows,
     handling_task |-> handling_task, handling_review |-> handling_review,
     editing_task |-> editing_task, insert_above |-> insert_above, stack |-> stack,
     review |-> review, appQ |-> appQ, taskQ |-> taskQ, reviewQ |-> reviewQ,
     after_refresh |-> after_refresh, status |-> status, disk |-> disk]

Becomes(s) ==
    /\ heap' = s.heap
    /\ tasks' = s.tasks
    /\ logs' = s.logs
    /\ saved_tasks' = s.saved_tasks
    /\ saved_logs' = s.saved_logs
    /\ list_index' = s.list_index
    /\ rows' = s.rows
    /\ handling_task' = s.handling_task
    /\ handling_review' = s.handling_review
    /\ editing_task' = s.editing_task
    /\ insert_above' = s.insert_above
    /\ stack' = s.stack
    /\ review' = s.review
    /\ appQ' = s.appQ
    /\ taskQ' = s.taskQ
    /\ reviewQ' = s.reviewQ
    /\ after_refresh' = s.after_refresh
    /\ status' = s.status
    /\ disk' = s.disk

\* An exception escaping a handler ends the application.
Crash(s) == [s EXCEPT !.status = "crashed"]

---------------------------------------------------------------------------
(* Messages. *)

\* events.Key; screen records which screen was on top when the key was
\* delivered (no handler reads it)
KeyMsg(k, scr) == [type |-> "key", key |-> k, screen |-> scr]
MoveCursor(i) == [type |-> "move_cursor", target_index |-> i]
TaskScreenResult(c, t, d, f) ==
    [type |-> "task_screen_result", cancelled |-> c, title |-> t, description |-> d,
     future_date |-> f]
TaskScreenComplete == [type |-> "task_screen_complete"]
ReviewComplete(ds) == [type |-> "review_complete", decisions |-> ds]
InvokeLater == [type |-> "invoke_later"]
ExitApp == [type |-> "exit_app"]
CloseMessages == [type |-> "close"]

\* self.post_message(m) on the App
post_message(s, m) == [s EXCEPT !.appQ = Append(@, m)]

---------------------------------------------------------------------------
(* The main ListView. *)

\* ListView.validate_index: None without rows, otherwise clamped into the rows.
validate_index(v, n) ==
    IF v = None \/ n = 0 THEN None ELSE Some(Max(0, Min(v[1], n - 1)))

\* get_selected_index answering 0 without a selection
get_selected_index_zero(s) == IF s.list_index = None THEN 0 ELSE s.list_index[1]

\* TodoApp.get_selected_index
get_selected_index(s) == IF s.list_index = None THEN -1 ELSE s.list_index[1]

\* What a refill may leave in ListView.index.
RefillChoices == {None, Some(0)}

\* TodoApp.update_list_view: clear() sets the index to None and append() selects
\* row 0 when the appended item is the view's only child.  clear() is not
\* awaited: whether the cleared rows are already detached when the first item
\* is appended depends on the Textual release, so after clearing a view that
\* had rows the index is None or 0 (c is that outcome).
update_list_view(s, c) ==
    [s EXCEPT !.rows = Len(s.tasks),
              !.list_index = IF Len(s.tasks) = 0 THEN None
                             ELSE IF s.rows = 0 THEN Some(0)
                             ELSE c]

\* ListView.action_cursor_down
action_cursor_down(s) ==
    [s EXCEPT !.list_index =
        IF @ = None THEN validate_index(Some(0), s.rows)
        ELSE validate_index(Some(@[1] + 1), s.rows)]

\* ListView.action_cursor_up
action_cursor_up(s) ==
    [s EXCEPT !.list_index =
        IF @ = None THEN validate_index(Some(0), s.rows)
        ELSE validate_index(Some(@[1] - 1), s.rows)]

\* TodoApp.on_todo_app_move_cursor
on_todo_app_move_cursor(s, m) ==
    [s EXCEPT !.list_index = validate_index(Some(m.target_index), s.rows)]

---------------------------------------------------------------------------
(* The store and the log. *)

\* What a file on disk can be: absent, present but not readable, readable
\* but not JSON, a JSON document from elsewhere, or what save wrote last.
FileConditions == {"missing", "unreadable", "not_json", "json", "saved"}

\* The try block of load_tasks: open and json.load raise on a file that
\* cannot be read or parsed, from_dict raises on a record without a key.
load_tasks_try(cond, content) ==
    IF cond \in {"unreadable", "not_json"} THEN [raised |-> TRUE]
    ELSE IF \E i \in 1..Len(content) : from_dict(content[i]).raised
    THEN [raised |-> TRUE]
    ELSE [raised |-> FALSE,
          value |-> [i \in 1..Len(content) |-> from_dict(content[i]).value]]


\* load_tasks without its except clause
load_tasks_uncaught(cond, content) ==
    IF cond = "missing" THEN [raised |-> FALSE, value |-> <<>>]
    ELSE load_tasks_try(cond, content)

\* load_tasks: no file gives [], and so does anything raised while reading
load_tasks(cond, content) ==
    IF cond = "missing" THEN [raised |-> FALSE, value |-> <<>>]
    ELSE LET r == load_tasks_try(cond, content)
         IN  IF r.raised THEN [raised |-> FALSE, value |-> <<>>] ELSE r

\* load_logs: the JSON document as it is, [] without a file or when reading raises
load_logs(cond, content) ==
    IF cond = "missing" THEN [raised |-> FALSE, value |-> <<>>]
    ELSE IF cond \in {"unreadable", "not_json"} THEN [raised |-> FALSE, value |-> <<>>]
    ELSE [raised |-> FALSE, value |-> content]

\* save_tasks leaving tasks.json as it is
save_tasks_skips(s) == s

\* save_tasks(self.tasks)
save_tasks(s) ==
    [s EXCEPT !.saved_tasks = Saved(s.heap, s.tasks), !.disk.tasks = "saved"]

\* save_logs(self.logs)
save_logs(s) == [s EXCEPT !.saved_logs = s.logs, !.disk.logs = "saved"]

\* add_log_entry putting the new entry in front of the log
add_log_entry_prepends(s, action, title) ==
    save_logs([s EXCEPT !.logs = <<LogEntry(action, title)>> \o @])

\* TodoApp.add_log_entry -> log_action: append, then save_logs
add_log_entry(s, action, title) ==
    save_logs([s EXCEPT !.logs = Append(@, LogEntry(action, title))])

---------------------------------------------------------------------------
(* The screen stack. *)

\* TaskScreen(task, parent_screen=...): the inputs start with the task's fields.
TaskScreen(h, task, parent) ==
    [kind |-> "task", task |-> task, parent |-> parent,
     inputs |-> IF task = NoTask
                THEN [title |-> "", description |-> "", date |-> ""]
                ELSE [title |-> h[task].title,
                      description |-> h[task].description,
                      date |-> IF h[task].future_date # NoDate
                               THEN StrftimeDMY(h[task].future_date) ELSE ""]]

ReviewScreenEntry ==
    [kind |-> "review", task |-> NoTask, parent |-> FALSE,
     inputs |-> [title |-> "", description |-> "", date |-> ""]]

\* App.screen: the kind of the screen on top of the stack
TopKind(s) == IF s.stack = <<>> THEN "main" ELSE s.stack[Len(s.stack)].kind

Top(s) == s.stack[Len(s.stack)]

\* TodoApp.push_screen
push_screen(s, scr) ==
    [s EXCEPT !.handling_task = IF scr.kind = "task" THEN TRUE ELSE @,
              !.handling_review = IF scr.kind = "review" THEN TRUE ELSE @,
              !.stack = Append(@, scr)]

\* pop_screen leaving the guard flags as they are
pop_screen_keeps_flag(s) ==
    IF s.stack = <<>> THEN Crash(s)
    ELSE LET k == TopKind(s)
             f == [s EXCEPT !.stack = SubSeq(@, 1, Len(@) - 1)]
         IN  IF k = "review" THEN post_message(f, InvokeLater) ELSE f

\* TodoApp.pop_screen: the flag of the screen on top is reset; popping the
\* default screen raises ScreenStackError.
pop_screen(s) ==
    IF s.stack = <<>> THEN Crash(s)
    ELSE LET k == TopKind(s)
             f == [s EXCEPT !.handling_task = IF k = "task" THEN FALSE ELSE @,
                            !.handling_review = IF k = "review" THEN FALSE ELSE @,
                            !.stack = SubSeq(@, 1, Len(@) - 1)]
         IN  IF k = "review" THEN post_message(f, InvokeLater) ELSE f

---------------------------------------------------------------------------
(* TaskScreen. *)

\* What the inputs of the TaskScreen on top may hold at submit: what it was
\* opened with, or what the user typed.
InputChoices(s) == TypedInputs \cup {Top(s).inputs}

\* The queue a TaskScreen posts its result to: its parent screen's, or its own.
PostResult(s, scr, m) ==
    IF scr.parent THEN [s EXCEPT !.reviewQ = Append(@, m)]
    ELSE [s EXCEPT !.taskQ = Append(@, m)]

\* action_submit refusing a date text that does not parse
action_submit_rejects_bad_date(s, inp) ==
    LET title == Strip(inp.title)
        description == Strip(inp.description)
        date_str == Strip(inp.date)
        parsed == IF date_str # "" THEN StrptimeDMY(date_str) ELSE <<FALSE>>
        future_date == IF parsed[1] THEN parsed[2] ELSE NoDate
    IN  IF title = "" \/ (date_str # "" /\ ~parsed[1]) THEN s
        ELSE pop_screen(PostResult(s, Top(s),
                 TaskScreenResult(FALSE, title, description, future_date)))

\* action_submit without the check of the title
action_submit_any_title(s, inp) ==
    LET title == Strip(inp.title)
        description == Strip(inp.description)
        date_str == Strip(inp.date)
        parsed == IF date_str # "" THEN StrptimeDMY(date_str) ELSE <<FALSE>>
        future_date == IF parsed[1] THEN parsed[2] ELSE NoDate
    IN  pop_screen(PostResult(s, Top(s),
            TaskScreenResult(FALSE, title, description, future_date)))

\* TaskScreen.action_submit of the screen on top, its inputs holding inp
action_submit(s, inp) ==
    LET title == Strip(inp.title)
        description == Strip(inp.description)
        date_str == Strip(inp.date)
        parsed == IF date_str # "" THEN StrptimeDMY(date_str) ELSE <<FALSE>>
        future_date == IF parsed[1] THEN parsed[2] ELSE NoDate
    IN  IF title = "" THEN s
        ELSE pop_screen(PostResult(s, Top(s),
                 TaskScreenResult(FALSE, title, description, future_date)))

\* action_cancel emitting a result that is not marked cancelled
task_action_cancel_submits(s) ==
    pop_screen(PostResult(s, Top(s), TaskScreenResult(FALSE, "", "", NoDate)))

\* TaskScreen.action_cancel of the screen on top
task_action_cancel(s) ==
    pop_screen(PostResult(s, Top(s), TaskScreenResult(TRUE, "", "", NoDate)))

---------------------------------------------------------------------------
(* ReviewScreen. *)

KEEP == "keep"
REOPEN == "reopen"
DELETE == "delete"

\* [task for task in tasks if task.resolved]
ResolvedOf(h, ts) == SelectSeq(ts, LAMBDA id : h[id].resolved)

\* ReviewScreen(self.tasks): decisions is a dict keyed by Task.  Task is a
\* dataclass with eq and without frozen, so it has no __hash__: building the
\* dict raises TypeError as soon as one task is captured.
open_review_screen(s) ==
    LET snap == ResolvedOf(s.heap, s.tasks)
    IN  IF snap # <<>> THEN Crash(s)
        ELSE push_screen([s EXCEPT !.review = [tasks |-> snap,
                                               decisions |-> [i \in 1..Len(snap) |-> KEEP],
                                               index |-> None]],
                         ReviewScreenEntry)

\* ReviewScreen._update_item posts MoveCursor(index) to the screen itself
review_update_item(s, i) ==
    IF i >= Len(s.review.tasks) THEN s
    ELSE [s EXCEPT !.reviewQ = Append(@, MoveCursor(i))]

\* ReviewScreen.action_toggle_reopen / action_toggle_delete (d is REOPEN or DELETE)
review_toggle(s, d) ==
    IF s.review.index = None THEN s
    ELSE LET i == s.review.index[1]
             current == s.review.decisions[i + 1]
         IN  review_update_item(
                 [s EXCEPT !.review.decisions[i + 1] = IF current = d THEN KEEP ELSE d], i)

\* ReviewScreen.open_task_screen
review_open_task_screen(s) ==
    IF s.review.index = None THEN s
    ELSE push_screen(s, TaskScreen(s.heap, At(s.review.tasks, s.review.index[1]), TRUE))

\* ReviewScreen.action_apply
review_action_apply(s) ==
    pop_screen([s EXCEPT !.reviewQ =
        Append(@, ReviewComplete([i \in 1..Len(s.review.tasks) |->
                                     <<s.review.tasks[i], s.review.decisions[i]>>]))])

\* action_cancel writing a log entry on its way out
review_action_cancel_logs(s) == add_log_entry(pop_screen(s), "Cancelled", "review")

\* ReviewScreen.action_cancel
review_action_cancel(s) == pop_screen(s)

\* ReviewScreen.on_key; only "R" stops the event
review_on_key(s, k) ==
    LET n == Len(s.review.tasks)
        idx == s.review.index
    IN  CASE k \in {"e", "enter", "E"} -> review_open_task_screen(s)
          [] k = "R" -> review_action_apply(s)
          [] k = "j" -> [s EXCEPT !.review.index =
                            validate_index(IF idx # None THEN Some(Min(idx[1] + 1, n - 1))
                                           ELSE Some(0), n)]
          [] k = "k" -> [s EXCEPT !.review.index =
                            validate_index(IF idx # None THEN Some(Max(0, idx[1] - 1))
                                           ELSE Some(0), n)]
          [] k = "escape" -> review_action_cancel(s)
          [] k = "space" -> review_toggle(s, REOPEN)
          [] k = "d" -> review_toggle(s, DELETE)
          [] OTHER -> s

\* ReviewScreen.on_task_screen_result
review_on_task_screen_result(s, m) ==
    IF m.cancelled THEN s
    ELSE IF s.review.index = None \/ s.review.index[1] >= Len(s.review.tasks) THEN s
    ELSE LET i == s.review.index[1]
             id == At(s.review.tasks, i)
         IN  review_update_item(
                 [s EXCEPT !.heap[id].title = m.title,
                           !.heap[id].description = m.description], i)

---------------------------------------------------------------------------
(* TodoApp: the Main Screen commands.  c is the outcome of the list refill. *)

\* move_task_up with the cursor update left at the old position
move_task_up_keeps_cursor(s, c) ==
    LET idx == get_selected_index(s)
    IN  IF idx <= 0 THEN s
        ELSE IF idx >= Len(s.tasks) THEN Crash(s)
        ELSE post_message(
                 update_list_view(save_tasks([s EXCEPT !.tasks = Swap(@, idx, idx - 1)]), c),
                 MoveCursor(idx))

\* TodoApp.move_task_up
move_task_up(s, c) ==
    LET idx == get_selected_index(s)
    IN  IF idx <= 0 THEN s
        ELSE IF idx >= Len(s.tasks) THEN Crash(s)
        ELSE post_message(
                 update_list_view(save_tasks([s EXCEPT !.tasks = Swap(@, idx, idx - 1)]), c),
                 MoveCursor(idx - 1))

\* move_task_down wrapping around at the last position
move_task_down_wraps(s, c) ==
    LET idx == get_selected_index(s)
    IN  IF idx = -1 \/ idx > Len(s.tasks) - 1 THEN s
        ELSE IF idx = Len(s.tasks) - 1
        THEN post_message(
                 update_list_view(save_tasks([s EXCEPT !.tasks = Swap(@, idx, 0)]), c),
                 MoveCursor(0))
        ELSE post_message(
                 update_list_view(save_tasks([s EXCEPT !.tasks = Swap(@, idx, idx + 1)]), c),
                 MoveCursor(idx + 1))

\* TodoApp.move_task_down
move_task_down(s, c) ==
    LET idx == get_selected_index(s)
    IN  IF idx = -1 \/ idx >= Len(s.tasks) - 1 THEN s
        ELSE post_message(
                 update_list_view(save_tasks([s EXCEPT !.tasks = Swap(@, idx, idx + 1)]), c),
                 MoveCursor(idx + 1))

\* TodoApp.open_task_screen
open_task_screen(s, task, above) ==
    push_screen([s EXCEPT !.handling_task = TRUE,
                          !.editing_task = task,
                          !.insert_above = above],
                TaskScreen(s.heap, task, FALSE))

\* TodoApp.on_key, keys "e", "o", "enter" and "E"
open_edit_screen(s) ==
    LET selected_index == get_selected_index(s)
    IN  IF selected_index < 0 THEN s
        ELSE IF selected_index >= Len(s.tasks) THEN Crash(s)
        ELSE open_task_screen(s, At(s.tasks, selected_index), FALSE)

\* delete_selected_task with the cursor update left on the deleted index
delete_selected_task_same_index(s, c) ==
    LET idx == get_selected_index(s)
    IN  IF idx = -1 THEN s
        ELSE IF idx >= Len(s.tasks) THEN Crash(s)
        ELSE LET task == At(s.tasks, idx)
                 a == update_list_view(save_tasks([s EXCEPT !.tasks = Pop(@, idx)]), c)
                 b == IF Len(a.tasks) > 0
                      THEN post_message(a, MoveCursor(idx))
                      ELSE [a EXCEPT !.list_index = None]
             IN  add_log_entry(b, "Deleted", s.heap[task].title)

\* TodoApp.delete_selected_task
delete_selected_task(s, c) ==
    LET idx == get_selected_index(s)
    IN  IF idx = -1 THEN s
        ELSE IF idx >= Len(s.tasks) THEN Crash(s)
        ELSE LET task == At(s.tasks, idx)
                 a == update_list_view(save_tasks([s EXCEPT !.tasks = Pop(@, idx)]), c)
                 b == IF Len(a.tasks) > 0
                      THEN post_message(a, MoveCursor(Min(idx, Len(a.tasks) - 1)))
                      ELSE [a EXCEPT !.list_index = None]
             IN  add_log_entry(b, "Deleted", s.heap[task].title)

\* ResolveTarget clamped to the last index instead of the one before it
ResolveTarget_last(idx, len, resolved) ==
    IF resolved THEN (IF len > 1 THEN Min(idx, len - 1) ELSE 0) ELSE 0

\* The cursor target of resolve_or_unresolve_task, from the index of the task
\* and the length of the collection
ResolveTarget(idx, len, resolved) ==
    IF resolved THEN (IF len > 1 THEN Min(idx, len - 2) ELSE 0) ELSE 0

\* Relocate with the two ends exchanged
Relocate_wrong_end(ts, idx, resolved) ==
    IF resolved THEN Insert(Pop(ts, idx), 0, At(ts, idx))
    ELSE Append(Pop(ts, idx), At(ts, idx))

\* Relocate leaving the task where it was as well
Relocate_keeps_copy(ts, idx, resolved) ==
    IF resolved THEN Append(ts, At(ts, idx))
    ELSE Insert(ts, 0, At(ts, idx))

\* Relocate leaving the collection as it is
Relocate_stays(ts, idx, resolved) == ts

\* The collection after resolve_or_unresolve_task relocated the task at idx
Relocate(ts, idx, resolved) ==
    IF resolved THEN Append(Pop(ts, idx), At(ts, idx))
    ELSE Insert(Pop(ts, idx), 0, At(ts, idx))

\* TodoApp.resolve_or_unresolve_task
resolve_or_unresolve_task(s, c) ==
    LET idx == get_selected_index(s)
    IN  IF idx = -1 THEN s
        ELSE IF idx >= Len(s.tasks) THEN Crash(s)
        ELSE LET task == At(s.tasks, idx)
                 resolved == ~s.heap[task].resolved
                 a == [s EXCEPT !.heap[task].resolved = resolved,
                                !.tasks = Relocate(@, idx, resolved)]
                 new_index == ResolveTarget(idx, Len(a.tasks), resolved)
                 b == add_log_entry(a, IF resolved THEN "Resolved" ELSE "Unresolved",
                                    s.heap[task].title)
             IN  post_message(update_list_view(save_tasks(b), c), MoveCursor(new_index))

\* App.exit
exit(s) == post_message(s, ExitApp)

\* The command TodoApp.on_key dispatches for a key, "none" when the guard
\* returns or the key has no branch.
CommandOf(s, k) ==
    IF s.handling_task \/ s.handling_review THEN "none"
    ELSE CASE k = "A" -> "open_add_above"
           [] k = "a" -> "open_add_below"
           [] k = "j" -> "cursor_down"
           [] k = "k" -> "cursor_up"
           [] k = "J" -> "move_task_down"
           [] k = "K" -> "move_task_up"
           [] k = "d" -> "delete"
           [] k = "r" -> "resolve"
           [] k \in {"e", "enter", "E"} -> "open_edit"
           [] k = "L" -> "toggle_log"
           [] k \in {"q", "escape"} -> "quit"
           [] k = "R" -> "open_review"
           [] OTHER -> "none"

\* TodoApp.on_key.  action_toggle_log is not defined: key "L" raises AttributeError.
on_key(s, k, c) ==
    LET cmd == CommandOf(s, k)
    IN  CASE cmd = "none" -> s
          [] cmd = "open_add_above" -> open_task_screen(s, NoTask, TRUE)
          [] cmd = "open_add_below" -> open_task_screen(s, NoTask, FALSE)
          [] cmd = "cursor_down" -> action_cursor_down(s)
          [] cmd = "cursor_up" -> action_cursor_up(s)
          [] cmd = "move_task_down" -> move_task_down(s, c)
          [] cmd = "move_task_up" -> move_task_up(s, c)
          [] cmd = "delete" -> delete_selected_task(s, c)
          [] cmd = "resolve" -> resolve_or_unresolve_task(s, c)
          [] cmd = "open_edit" -> open_edit_screen(s)
          [] cmd = "toggle_log" -> Crash(s)
          [] cmd = "quit" -> exit(s)
          [] cmd = "open_review" -> open_review_screen(s)

---------------------------------------------------------------------------
(* TodoApp: the message handlers. *)

\* InsertIndex with insert-below landing on the cursor itself
InsertIndex_on_cursor(above, selected_index, len) ==
    IF selected_index >= 0 THEN selected_index ELSE len

\* Where on_task_screen_result inserts a new task: at the cursor for
\* insert-above, behind it for insert-below, at the end without a selection
InsertIndex(above, selected_index, len) ==
    IF above /\ selected_index >= 0 THEN selected_index
    ELSE IF selected_index >= 0 THEN selected_index + 1
    ELSE len

\* TodoApp.on_task_screen_result
on_task_screen_result(s, m, c) ==
    IF s.handling_review THEN s
    ELSE IF m.cancelled
    THEN post_message([s EXCEPT !.editing_task = NoTask], TaskScreenComplete)
    ELSE LET selected_index == get_selected_index(s)
             edited ==
                 [s EXCEPT !.heap[s.editing_task].title = m.title,
                           !.heap[s.editing_task].description = m.description,
                           !.heap[s.editing_task].future_date = m.future_date,
                           !.editing_task = NoTask]
             new_task == Len(s.heap) + 1
             insert_idx == InsertIndex(s.insert_above, selected_index, Len(s.tasks))
             added ==
                 [s EXCEPT !.heap = Append(@, Task(m.title, m.description, FALSE,
                                                   m.future_date)),
                           !.tasks = IF insert_idx > Len(@) THEN Append(@, new_task)
                                     ELSE Insert(@, insert_idx, new_task)]
             a == IF s.editing_task # NoTask THEN edited ELSE added
             target_index == IF s.editing_task # NoTask THEN selected_index ELSE insert_idx
             action == IF s.editing_task # NoTask THEN "Edited" ELSE "Added"
             b == add_log_entry(update_list_view(save_tasks(a), c), action, m.title)
         IN  post_message(post_message(b, MoveCursor(target_index)), TaskScreenComplete)

\* TodoApp.on_task_screen_complete
on_task_screen_complete(s) == [s EXCEPT !.handling_task = FALSE]

\* list.index of the first task equal to task id (dataclass equality compares
\* the fields), 0 when there is none
FirstEqual(h, ts, id) ==
    IF \E i \in 1..Len(ts) : h[ts[i]] = h[id]
    THEN CHOOSE i \in 1..Len(ts) : h[ts[i]] = h[id] /\ \A j \in 1..(i - 1) : h[ts[j]] # h[id]
    ELSE 0

\* The loop of on_review_screen_review_complete over decisions ds, from the
\* i-th on; list.remove raises ValueError when no equal task is in the list.
RECURSIVE ApplyDecisions(_, _, _)
ApplyDecisions(s, ds, i) ==
    IF i > Len(ds) \/ s.status # "running" THEN s
    ELSE LET task == ds[i][1]
             decision == ds[i][2]
         IN  IF decision = DELETE
             THEN LET at == FirstEqual(s.heap, s.tasks, task)
                  IN  IF at = 0 THEN Crash(s)
                      ELSE ApplyDecisions(
                               add_log_entry([s EXCEPT !.tasks = Pop(@, at - 1)],
                                             "Deleted", s.heap[task].title), ds, i + 1)
             ELSE IF decision = REOPEN
             THEN LET r == [s EXCEPT !.heap[task].resolved = FALSE]
                      at == FirstEqual(r.heap, r.tasks, task)
                  IN  IF at = 0 THEN Crash(r)
                      ELSE ApplyDecisions(
                               add_log_entry(
                                   [r EXCEPT !.tasks = Insert(Pop(@, at - 1), 0, task)],
                                   "Reopened", r.heap[task].title), ds, i + 1)
             ELSE ApplyDecisions(s, ds, i + 1)

\* on_review_screen_review_complete logging the apply itself
on_review_screen_review_complete_logs(s, m, c) ==
    LET a == ApplyDecisions(s, m.decisions, 1)
    IN  IF a.status # "running" THEN a
        ELSE LET b == update_list_view(save_tasks(add_log_entry(a, "Applied", "review")), c)
             IN  IF Len(b.tasks) > 0 THEN post_message(b, MoveCursor(0)) ELSE b

\* TodoApp.on_review_screen_review_complete
on_review_screen_review_complete(s, m, c) ==
    LET a == ApplyDecisions(s, m.decisions, 1)
    IN  IF a.status # "running" THEN a
        ELSE LET b == update_list_view(save_tasks(a), c)
             IN  IF Len(b.tasks) > 0 THEN post_message(b, MoveCursor(0)) ELSE b

\* TodoApp.on_unmount
on_unmount(s) == save_logs(save_tasks(s))

---------------------------------------------------------------------------
(* The key source and the focused widget. *)

Keys == {"A", "a", "j", "k", "J", "K", "d", "r", "e", "enter", "E", "L",
         "q", "escape", "R", "space"}

\* events.Key.is_printable: an Input takes these keys and stops them
Printable(k) == k \notin {"enter", "escape"}

\* TaskScreen.on_key with the key coming up from the focused Input: "enter" is
\* stopped and submits, printable keys never leave the Input, "escape" bubbles.
task_on_key(s, k, inp) ==
    IF k = "enter" THEN action_submit(s, inp)
    ELSE IF Printable(k) THEN s
    ELSE post_message(s, KeyMsg(k, "task"))

\* The Key Source delivers key k: the top screen's on_key runs, and the event
\* bubbles to the App unless it was stopped.
KeyPress(k) ==
    /\ status = "running"
    /\ keysLeft > 0
    /\ keysLeft' = keysLeft - 1
    /\ did' = "none"
    /\ UNCHANGED applied
    /\ LET top == TopKind(Cur)
       IN  CASE top = "main" ->
                  /\ Becomes(post_message(Cur, KeyMsg(k, "main")))
                  /\ submitted' = None
             [] top = "task" ->
                  \E inp \in (IF k = "enter" THEN InputChoices(Cur) ELSE {Top(Cur).inputs}) :
                      /\ Becomes(task_on_key(Cur, k, inp))
                      /\ submitted' = IF k = "enter" THEN Some(inp) ELSE None
             [] top = "review" ->
                  LET a == review_on_key(Cur, k)
                  IN  /\ Becomes(IF k = "R" THEN a ELSE post_message(a, KeyMsg(k, "review")))
                      /\ submitted' = None

---------------------------------------------------------------------------
(* The App's message pump. *)

\* App._on_key -> _check_bindings, after TodoApp.on_key: the bindings of the
\* screen that is on top now.  TaskScreen binds enter to submit and escape to
\* cancel, ReviewScreen binds escape to cancel.  The focused Input binds enter
\* itself, so the TaskScreen's enter binding runs only while the screen has
\* no focus yet (fire); its inputs then still hold what it was opened with.
check_bindings(s, k, fire) ==
    IF s.status # "running" THEN s
    ELSE CASE TopKind(s) = "task" /\ k = "escape" -> task_action_cancel(s)
           [] TopKind(s) = "task" /\ k = "enter" /\ fire ->
                  action_submit(s, Top(s).inputs)
           [] TopKind(s) = "review" /\ k = "escape" -> review_action_cancel(s)
           [] OTHER -> s

Rest == [Cur EXCEPT !.appQ = Tail(@)]

AppKey ==
    /\ status = "running"
    /\ appQ # <<>>
    /\ Head(appQ).type = "key"
    /\ LET k == Head(appQ).key
       IN  /\ did' = CommandOf(Rest, k)
           /\ \E c \in RefillChoices :
                LET a == on_key(Rest, k, c)
                    submits == a.status = "running" /\ TopKind(a) = "task" /\ k = "enter"
                IN  \E fire \in (IF submits THEN BOOLEAN ELSE {FALSE}) :
                        /\ Becomes(check_bindings(a, k, fire))
                        /\ submitted' = IF fire THEN Some(Top(a).inputs) ELSE None
    /\ UNCHANGED keysLeft
    /\ applied' = FALSE

AppMoveCursor ==
    /\ status = "running"
    /\ appQ # <<>>
    /\ Head(appQ).type = "move_cursor"
    /\ Becomes(on_todo_app_move_cursor(Rest, Head(appQ)))
    /\ did' = "none"
    /\ submitted' = None
    /\ UNCHANGED keysLeft
    /\ UNCHANGED applied

AppTaskScreenResult ==
    /\ status = "running"
    /\ appQ # <<>>
    /\ Head(appQ).type = "task_screen_result"
    /\ \E c \in RefillChoices : Becomes(on_task_screen_result(Rest, Head(appQ), c))
    /\ did' = "none"
    /\ submitted' = None
    /\ UNCHANGED keysLeft
    /\ applied' = FALSE

AppTaskScreenComplete ==
    /\ status = "running"
    /\ appQ # <<>>
    /\ Head(appQ).type = "task_screen_complete"
    /\ Becomes(on_task_screen_complete(Rest))
    /\ did' = "none"
    /\ submitted' = None
    /\ UNCHANGED keysLeft
    /\ UNCHANGED applied

AppReviewComplete ==
    /\ status = "running"
    /\ appQ # <<>>
    /\ Head(appQ).type = "review_complete"
    /\ \E c \in RefillChoices :
         Becomes(on_review_screen_review_complete(Rest, Head(appQ), c))
    /\ did' = "none"
    /\ submitted' = None
    /\ UNCHANGED keysLeft
    /\ applied' = TRUE

\* call_after_refresh: the callback runs after the next refresh of the screen
AppInvokeLater ==
    /\ status = "running"
    /\ appQ # <<>>
    /\ Head(appQ).type = "invoke_later"
    /\ Becomes([Rest EXCEPT !.after_refresh = @ + 1])
    /\ did' = "none"
    /\ submitted' = None
    /\ UNCHANGED keysLeft
    /\ UNCHANGED applied

RunCallback ==
    /\ status = "running"
    /\ after_refresh > 0
    /\ \E c \in RefillChoices :
         Becomes(update_list_view([Cur EXCEPT !.after_refresh = @ - 1], c))
    /\ did' = "none"
    /\ submitted' = None
    /\ UNCHANGED keysLeft
    /\ UNCHANGED applied

\* App._on_exit_app closes the queue behind the messages already in it
AppExitApp ==
    /\ status = "running"
    /\ appQ # <<>>
    /\ Head(appQ).type = "exit_app"
    /\ Becomes(post_message(Rest, CloseMessages))
    /\ did' = "none"
    /\ submitted' = None
    /\ UNCHANGED keysLeft
    /\ UNCHANGED applied

\* The App's pump ends: on_unmount saves, nothing runs afterwards
AppClose ==
    /\ status = "running"
    /\ appQ # <<>>
    /\ Head(appQ).type = "close"
    /\ Becomes([on_unmount(Rest) EXCEPT !.status = "exited"])
    /\ did' = "none"
    /\ submitted' = None
    /\ UNCHANGED keysLeft
    /\ UNCHANGED applied

---------------------------------------------------------------------------
(* The pumps of the screens. *)

\* A closed TaskScreen's pump reaches the result it posted to itself: no
\* handler there, the message bubbles to the App.
TaskBubble ==
    /\ status = "running"
    /\ \E i \in 1..Len(taskQ) :
         Becomes([Cur EXCEPT !.taskQ = Pop(@, i - 1), !.appQ = Append(@, taskQ[i])])
    /\ did' = "none"
    /\ submitted' = None
    /\ UNCHANGED keysLeft
    /\ UNCHANGED applied

\* ReviewScreen.on_review_screen_move_cursor
on_review_screen_move_cursor(s, m) ==
    [s EXCEPT !.review.index = validate_index(Some(m.target_index), Len(s.review.tasks))]

\* The ReviewScreen's pump: its own MoveCursor, the result of a TaskScreen it
\* opened (handled, then bubbled), and ReviewComplete (bubbled).
ReviewStep ==
    /\ status = "running"
    /\ reviewQ # <<>>
    /\ LET m == Head(reviewQ)
           r == [Cur EXCEPT !.reviewQ = Tail(@)]
       IN  CASE m.type = "move_cursor" -> Becomes(on_review_screen_move_cursor(r, m))
             [] m.type = "task_screen_result" ->
                  Becomes(post_message(review_on_task_screen_result(r, m), m))
             [] OTHER -> Becomes(post_message(r, m))
    /\ did' = "none"
    /\ submitted' = None
    /\ UNCHANGED keysLeft
    /\ UNCHANGED applied

---------------------------------------------------------------------------
(* The specification. *)

\* load_tasks, load_logs and TodoApp.on_mount: the collection read from the
\* store is shown (the view had no rows) and saved.
\* keys is the number of key presses of the run.
InitWith(keys) ==
    \E n \in 0..MaxInit : \E res \in [1..n -> BOOLEAN] :
        /\ heap = [i \in 1..n |-> Task(InitTitle(i), "", res[i], InitDate(i))]
        /\ tasks = [i \in 1..n |-> i]
        /\ logs = <<>>
        /\ saved_tasks = Saved(heap, tasks)
        /\ saved_logs = <<>>
        /\ list_index = IF n = 0 THEN None ELSE Some(0)
        /\ rows = n
        /\ handling_task = FALSE
        /\ handling_review = FALSE
        /\ editing_task = NoTask
        /\ insert_above = FALSE
        /\ stack = <<>>
        /\ review = [tasks |-> <<>>, decisions |-> <<>>, index |-> None]
        /\ appQ = <<>>
        /\ taskQ = <<>>
        /\ reviewQ = <<>>
        /\ after_refresh = 0
        /\ status = "running"
        /\ keysLeft = keys
        /\ did = "none"
        /\ applied = FALSE
        /\ disk = [tasks |-> "saved", logs |-> "saved"]
        /\ submitted = None

Next ==
    \/ \E k \in Keys : KeyPress(k)
    \/ AppKey
    \/ AppMoveCursor
    \/ AppTaskScreenResult
    \/ AppTaskScreenComplete
    \/ AppReviewComplete
    \/ AppInvokeLater
    \/ RunCallback
    \/ AppExitApp
    \/ AppClose
    \/ TaskBubble
    \/ ReviewStep

Init == InitWith(MaxKeys)

Spec == Init /\ [][Next]_vars

\* Runs one key press longer.
DeepInit == InitWith(MaxKeys + 1)

DeepSpec == DeepInit /\ [][Next]_vars

---------------------------------------------------------------------------
(* The store across runs of the program: a run loads both files, saves them *)
(* when the App is mounted and again when it is unmounted; the next run     *)
(* loads what the last one left.                                            *)

\* JSON objects a tasks.json from elsewhere may hold: complete records with
\* the date null, well-formed or not, and records without one of the keys.
JsonRecords ==
    { [title |-> "A", description |-> "", resolved |-> FALSE, future_date |-> f] :
          f \in {"null", "2025-02-01", "0999-01-01", "999-01-01", "soon"} }
    \cup { [description |-> "", resolved |-> FALSE, future_date |-> "null"],
           [title |-> "A", resolved |-> FALSE, future_date |-> "null"],
           [title |-> "A", description |-> "", future_date |-> "null"],
           [title |-> "A", description |-> "", resolved |-> TRUE] }

\* Sequences over S of length at most n
SeqUpTo(S, n) == UNION { [1..k -> S] : k \in 0..n }

\* The program starts: the class body and __init__ of TodoApp call
\* load_tasks and load_logs.
StartUp ==
    /\ status \in {"start", "exited"}
    /\ LET t == load_tasks(disk.tasks, saved_tasks)
           l == load_logs(disk.logs, saved_logs)
       IN  IF t.raised \/ l.raised THEN Becomes(Crash(Cur))
           ELSE Becomes([Cur EXCEPT !.heap = t.value,
                                    !.tasks = [i \in 1..Len(t.value) |-> i],
                                    !.logs = l.value,
                                    !.list_index = None,
                                    !.rows = 0,
                                    !.status = "loaded"])
    /\ UNCHANGED <<keysLeft, did, applied, submitted>>

\* TodoApp.on_mount
on_mount(s) == save_logs(save_tasks(update_list_view(s, None)))

Mount ==
    /\ status = "loaded"
    /\ Becomes([on_mount(Cur) EXCEPT !.status = "running"])
    /\ UNCHANGED <<keysLeft, did, applied, submitted>>

\* The App is closed: on_unmount saves, the process ends
Unmount ==
    /\ status = "running"
    /\ Becomes([on_unmount(Cur) EXCEPT !.status = "exited"])
    /\ UNCHANGED <<keysLeft, did, applied, submitted>>

\* Either no run has started and the files are whatever is on disk, or a run
\* has its collection in memory and saved: tasks as earlier runs left them,
\* some with the dates typed into the Task Edit screen.
StoreInit ==
    /\ \/ /\ status = "start"
          /\ heap = <<>>
          /\ logs = <<>>
          /\ \E ct \in FileConditions \ {"saved"}, cl \in FileConditions \ {"saved"} :
                disk = [tasks |-> ct, logs |-> cl]
          /\ IF disk.tasks = "json" THEN saved_tasks \in SeqUpTo(JsonRecords, MaxInit)
             ELSE saved_tasks = <<>>
          /\ IF disk.logs = "json" THEN saved_logs \in {<<>>, <<LogEntry("Added", "N")>>}
             ELSE saved_logs = <<>>
       \/ /\ status = "running"
          /\ \E n \in 0..MaxInit :
                \E res \in [1..n -> BOOLEAN], dates \in [1..n -> {NoDate, TheDate, OldDate}] :
                    heap = [i \in 1..n |-> Task(InitTitle(i), "", res[i], dates[i])]
          /\ logs \in {<<>>, <<LogEntry("Added", "N")>>}
          /\ disk = [tasks |-> "saved", logs |-> "saved"]
          /\ saved_tasks = Saved(heap, [i \in 1..Len(heap) |-> i])
          /\ saved_logs = logs
    /\ tasks = [i \in 1..Len(heap) |-> i]
    /\ list_index = IF status = "running" /\ heap # <<>> THEN Some(0) ELSE None
    /\ rows = IF status = "running" THEN Len(heap) ELSE 0
    /\ handling_task = FALSE
    /\ handling_review = FALSE
    /\ editing_task = NoTask
    /\ insert_above = FALSE
    /\ stack = <<>>
    /\ review = [tasks |-> <<>>, decisions |-> <<>>, index |-> None]
    /\ appQ = <<>>
    /\ taskQ = <<>>
    /\ reviewQ = <<>>
    /\ after_refresh = 0
    /\ keysLeft = 0
    /\ did = "none"
    /\ applied = FALSE
    /\ submitted = None

StoreNext ==
    \/ StartUp
    \/ Mount
    \/ Unmount

StoreSpec == StoreInit /\ [][StoreNext]_vars

---------------------------------------------------------------------------
(* Properties. *)

\* Every queue is drained and no callback is pending.
Idle ==
    /\ status = "running"
    /\ appQ = <<>>
    /\ taskQ = <<>>
    /\ reviewQ = <<>>
    /\ after_refresh = 0

\* C1: whenever the event loop is idle, the Main Screen's cursor is none if the
\* collection is empty and otherwise an index in 0..len-1.
C1_IdleCursorInRange ==
    Idle => IF Len(tasks) = 0 THEN list_index = None
            ELSE list_index # None /\ list_index[1] \in 0..(Len(tasks) - 1)

\* A Task Edit Screen opened from the Main Screen is open, or its result has
\* not been handled by TodoApp yet.
MainEditPending ==
    \/ \E i \in 1..Len(stack) : stack[i].kind = "task" /\ ~stack[i].parent
    \/ \E i \in 1..Len(taskQ) : taskQ[i].type = "task_screen_result"
    \/ \E i \in 1..Len(appQ) : appQ[i].type = "task_screen_result"

\* C2: from the opening of a Task Edit Screen from the Main Screen until the
\* handler of its result has finished, no step executes a Main Screen command.
C2_NoCommandWhileEditing ==
    [][MainEditPending => did' = "none"]_vars

\* The App is about to handle a key that was delivered while the Review Screen
\* was on top of the stack.
ReviewKeyAtHead ==
    /\ status = "running"
    /\ appQ # <<>>
    /\ Head(appQ).type = "key"
    /\ Head(appQ).screen = "review"

\* C3: a key delivered while the Review Screen is on the stack, the cancel and
\* apply keys included, never executes a Main Screen command.
C3_NoCommandForReviewKeys ==
    [][ReviewKeyAtHead => did' = "none"]_vars

\* The apply key of the Review Screen was pressed and TodoApp has not handled
\* the ReviewComplete message yet.
ReviewApplyPending ==
    \/ \E i \in 1..Len(reviewQ) : reviewQ[i].type = "review_complete"
    \/ \E i \in 1..Len(appQ) : appQ[i].type = "review_complete"

\* The Main Screen commands that read or change the collection or the cursor.
CollectionCommands ==
    {"cursor_down", "cursor_up", "move_task_down", "move_task_up", "delete",
     "resolve", "open_edit", "open_review"}

\* C4: between the apply key of the Review Screen and the end of the handler
\* that applies the decisions, no Main Screen command that reads or changes the
\* collection or the cursor is executed.
C4_NoCommandWhileApplying ==
    [][ReviewApplyPending => did' \notin CollectionCommands]_vars

\* A cursor update posted by a handler is still in the App's queue.
CursorUpdatePending ==
    \E i \in 1..Len(appQ) : appQ[i].type = "move_cursor"

\* C5: the whole effect of a mutating command, its cursor update included, is
\* in place before the next key is handled: no Main Screen command is executed
\* while a cursor update is still pending.
C5_CommandEffectAtomic ==
    [][CursorUpdatePending => did' = "none"]_vars

\* The step toggled the resolved flag of the task under the cursor.
ToggleStep ==
    /\ did' = "resolve"
    /\ list_index # None
    /\ status' = "running"

\* C6: toggle-resolved flips the flag of the selected task and nothing else in
\* it, puts a task that became resolved at index len-1 and one that became
\* unresolved at index 0, and keeps the order of the other tasks.
C6_ToggleRelocates ==
    [][ToggleStep =>
        LET id == At(tasks, list_index[1])
            others == SelectSeq(tasks, LAMBDA x : x # id)
        IN  /\ heap' = [heap EXCEPT ![id].resolved = ~heap[id].resolved]
            /\ tasks' = IF heap'[id].resolved THEN others \o <<id>> ELSE <<id>> \o others
       ]_vars

\* A task of a collection of two or more was resolved and went to the end.
C6_Witness ==
    /\ did = "resolve"
    /\ status = "running"
    /\ Len(tasks) >= 2
    /\ heap[tasks[Len(tasks)]].resolved
    /\ logs # <<>>
    /\ logs[Len(logs)] = LogEntry("Resolved", heap[tasks[Len(tasks)]].title)

MoveUpStep ==
    /\ did' = "move_task_up"
    /\ list_index # None
    /\ list_index[1] > 0
    /\ status' = "running"

\* The step moved the task under the cursor, at an index below len-1, down.
MoveDownStep ==
    /\ did' = "move_task_down"
    /\ list_index # None
    /\ list_index[1] < Len(tasks) - 1
    /\ status' = "running"

\* The collection ts with the tasks at indices i and j exchanged and every
\* other task where it was.
Exchanged(ts, new, i, j) ==
    /\ Len(new) = Len(ts)
    /\ At(new, i) = At(ts, j)
    /\ At(new, j) = At(ts, i)
    /\ \A n \in 0..(Len(ts) - 1) : n \notin {i, j} => At(new, n) = At(ts, n)

\* C8: move-task-up at index i > 0 exchanges the task with the one at i-1 and
\* posts the cursor update i-1; move-task-down at i < len-1 exchanges it with
\* the one at i+1 and posts i+1; no other task moves and no task changes.
C8_MoveSwapsNeighbour ==
    [][/\ MoveUpStep =>
            /\ Exchanged(tasks, tasks', list_index[1], list_index[1] - 1)
            /\ heap' = heap
            /\ appQ' # <<>>
            /\ appQ'[Len(appQ')] =
                   [type |-> "move_cursor", target_index |-> list_index[1] - 1]
       /\ MoveDownStep =>
            /\ Exchanged(tasks, tasks', list_index[1], list_index[1] + 1)
            /\ heap' = heap
            /\ appQ' # <<>>
            /\ appQ'[Len(appQ')] =
                   [type |-> "move_cursor", target_index |-> list_index[1] + 1]
      ]_vars

\* The second task was moved up: it is first now, and the cursor update
\* targets index 0.
C8_Witness ==
    /\ did = "move_task_up"
    /\ status = "running"
    /\ Len(tasks) >= 2
    /\ tasks[1] = 2
    /\ tasks[2] = 1
    /\ appQ # <<>>
    /\ appQ[Len(appQ)] = [type |-> "move_cursor", target_index |-> 0]

\* The step dispatched move-task-up with the cursor on the first task, or
\* move-task-down with the cursor on the last one.
MoveAtEdgeStep ==
    \/ did' = "move_task_up" /\ list_index = Some(0)
    \/ did' = "move_task_down" /\ list_index = Some(Len(tasks) - 1)

\* C9: move-task-up at index 0 and move-task-down at index len-1 change
\* nothing: order, tasks, cursor, persisted state and log stay as they were,
\* nothing is posted and nothing is raised.
C9_MoveAtEdgeIsNoOp ==
    [][MoveAtEdgeStep =>
        /\ UNCHANGED <<heap, tasks, list_index, rows, logs, saved_tasks, saved_logs,
                       status, stack>>
        /\ appQ' = Tail(appQ)
       ]_vars

\* Move-task-down was dispatched with the cursor on the last of two tasks.
C9_Witness ==
    /\ did = "move_task_down"
    /\ status = "running"
    /\ Len(tasks) >= 2
    /\ list_index = Some(Len(tasks) - 1)
    /\ appQ = <<>>
    /\ logs = <<>>

\* C10: a move that exchanges two tasks persists the collection and appends
\* exactly one entry to the Action Log.
C10_MovePersistsAndLogs ==
    [][(did' \in {"move_task_up", "move_task_down"} /\ tasks' # tasks) =>
        /\ saved_tasks' = Saved(heap', tasks')
        /\ Len(logs') = Len(logs) + 1
        /\ SubSeq(logs', 1, Len(logs)) = logs
       ]_vars

\* The step is the App handling the message at the head of its queue, of the
\* given type.
AppHandles(type) ==
    /\ status = "running"
    /\ appQ # <<>>
    /\ Head(appQ).type = type
    /\ UNCHANGED <<taskQ, reviewQ, keysLeft, after_refresh>>

\* The step handled a submitted result as the addition of a task.
AddResultStep ==
    /\ AppHandles("task_screen_result")
    /\ ~Head(appQ).cancelled
    /\ ~handling_review
    /\ editing_task = NoTask

\* C11: a submitted add result inserts the new task at p, where p is the cursor
\* index for insert-above, cursor+1 for insert-below and len without a
\* selection; the tasks already present keep their order and their fields, and
\* the cursor update posted targets p.
C11_AddInsertsAtCursor ==
    [][AddResultStep =>
        LET m == Head(appQ)
            p == IF list_index = None THEN Len(tasks)
                 ELSE IF insert_above THEN list_index[1]
                 ELSE list_index[1] + 1
            new == Len(heap) + 1
        IN  /\ heap' = Append(heap, [title |-> m.title, description |-> m.description,
                                     resolved |-> FALSE, future_date |-> m.future_date])
            /\ Len(tasks') = Len(tasks) + 1
            /\ At(tasks', p) = new
            /\ SelectSeq(tasks', LAMBDA x : x # new) = tasks
            /\ appQ' = Tail(appQ) \o <<[type |-> "move_cursor", target_index |-> p],
                                       [type |-> "task_screen_complete"]>>
       ]_vars

\* A task was added below the first of the tasks present: it is second, and
\* the cursor update targets index 1.
C11_Witness ==
    /\ status = "running"
    /\ Len(tasks) >= 2
    /\ Len(heap) = Len(tasks)
    /\ tasks[2] = Len(heap)
    /\ tasks[1] = 1
    /\ ~insert_above
    /\ logs = <<LogEntry("Added", heap[tasks[2]].title)>>
    /\ appQ = <<[type |-> "move_cursor", target_index |-> 1],
                [type |-> "task_screen_complete"]>>

\* The step deleted the task under the cursor.
DeleteStep ==
    /\ did' = "delete"
    /\ list_index # None
    /\ status' = "running"

\* C12: delete-selected at index i removes exactly the task at i, appends one
\* "Deleted task" log entry, and posts the cursor update min(i, len-1) of the
\* new collection, or sets the cursor to none when the collection became empty.
C12_DeleteRemovesSelected ==
    [][DeleteStep =>
        LET i == list_index[1]
            id == At(tasks, i)
            left == Len(tasks) - 1
        IN  /\ Len(tasks') = left
            /\ \A n \in 0..(left - 1) :
                   At(tasks', n) = IF n < i THEN At(tasks, n) ELSE At(tasks, n + 1)
            /\ heap' = heap
            /\ logs' = Append(logs, <<"Deleted", heap[id].title>>)
            /\ IF left = 0
               THEN list_index' = None /\ appQ' = Tail(appQ)
               ELSE appQ' = Append(Tail(appQ),
                                   [type |-> "move_cursor",
                                    target_index |-> IF i < left - 1 THEN i ELSE left - 1])
       ]_vars

\* The last of two or more tasks was deleted: the cursor update targets the
\* new last index.
C12_Witness ==
    /\ did = "delete"
    /\ status = "running"
    /\ Len(heap) = Len(tasks) + 1
    /\ Len(tasks) >= 1
    /\ \A n \in 1..Len(tasks) : tasks[n] = n
    /\ logs = <<LogEntry("Deleted", heap[Len(heap)].title)>>
    /\ appQ = <<[type |-> "move_cursor", target_index |-> Len(tasks) - 1]>>

\* The step dispatched a command that needs a selected task while the cursor
\* was none.
NoSelectionStep ==
    /\ did' \in {"move_task_up", "move_task_down", "delete", "resolve", "open_edit"}
    /\ list_index = None

\* C13: with the cursor none, move-task-up, move-task-down, delete-selected,
\* toggle-resolved and open-edit change nothing: the collection, the tasks'
\* fields, the log, the persisted state and the screen stack stay as they
\* were, nothing is posted and nothing is raised.
C13_NoSelectionIsNoOp ==
    [][NoSelectionStep =>
        /\ UNCHANGED <<heap, tasks, logs, saved_tasks, saved_logs, stack, list_index,
                       status, handling_task, editing_task>>
        /\ appQ' = Tail(appQ)
       ]_vars

\* Toggle-resolved was dispatched on a collection that is not empty while the
\* cursor was none.
C13_Witness ==
    /\ did = "resolve"
    /\ status = "running"
    /\ list_index = None
    /\ tasks # <<>>
    /\ appQ # <<>>
    /\ Head(appQ).type = "move_cursor"

\* C14: opening the Review Screen succeeds on every collection and captures
\* exactly the tasks resolved at that moment, in collection order, with one
\* decision per captured task, each KEEP.
C14_ReviewOpensWithSnapshot ==
    [][did' = "open_review" =>
        /\ status' = "running"
        /\ Len(stack') = Len(stack) + 1
        /\ stack'[Len(stack')].kind = "review"
        /\ review'.tasks = SelectSeq(tasks, LAMBDA id : heap[id].resolved)
        /\ review'.decisions = [i \in 1..Len(review'.tasks) |-> "keep"]
       ]_vars

\* No ReviewScreen ever holds a captured task, a selection, or a Task Edit
\* Screen of its own.
ReviewNeverCaptures ==
    /\ review.tasks = <<>>
    /\ review.decisions = <<>>
    /\ review.index = None
    /\ \A i \in 1..Len(stack) : ~stack[i].parent
    /\ \A i \in 1..Len(reviewQ) : reviewQ[i].type = "review_complete"
    /\ \A i \in 1..Len(appQ) :
           appQ[i].type = "review_complete" => appQ[i].decisions = <<>>

\* The step is TodoApp handling a ReviewComplete whose decisions are all KEEP.
ApplyKeepStep ==
    /\ AppHandles("review_complete")
    /\ \A i \in 1..Len(Head(appQ).decisions) : Head(appQ).decisions[i][2] = "keep"

C19_CursorAfterApply ==
    (applied /\ Idle) =>
        /\ list_index = IF tasks = <<>> THEN None ELSE Some(0)
        /\ saved_tasks = Saved(heap, tasks)

\* The Review Screen is on the stack.
ReviewOpen == \E i \in 1..Len(stack) : stack[i].kind = "review"

\* C20: from the opening of the Review Screen to its cancellation, the cancel
\* step included, the collection keeps the same tasks in the same order with
\* the same resolved flags and the Action Log stays as it was; only the title
\* and description of a task may change.
C20_CancelKeepsCollection ==
    [][ReviewOpen =>
        /\ tasks' = tasks
        /\ Len(heap') = Len(heap)
        /\ \A id \in 1..Len(heap) :
               /\ heap'[id].resolved = heap[id].resolved
               /\ heap'[id].future_date = heap[id].future_date
        /\ logs' = logs
        /\ saved_logs' = saved_logs
       ]_vars

\* The Review Screen of a collection that is not empty was cancelled with the
\* escape key: the screen is gone and the key is on its way to the App.
C20_Witness ==
    /\ status = "running"
    /\ stack = <<>>
    /\ ~handling_review
    /\ tasks # <<>>
    /\ reviewQ = <<>>
    /\ \E i \in 1..Len(appQ) : appQ[i] = KeyMsg("escape", "review")

C23_LogOnlyAppends ==
    [][/\ Len(logs') >= Len(logs)
       /\ SubSeq(logs', 1, Len(logs)) = logs
       /\ logs' # logs => saved_logs' = logs'
      ]_vars

\* A second entry was appended behind the first and both are persisted.
C23_Witness ==
    /\ Len(logs) = 2
    /\ logs[1] # logs[2]
    /\ saved_logs = logs

\* The screen stacks of the claim: st holds the screens above the Main Screen.
StackShape(st) ==
    \/ st = <<>>
    \/ Len(st) = 1 /\ st[1].kind \in {"task", "review"} /\ ~st[1].parent
    \/ Len(st) = 2 /\ st[1].kind = "review" /\ st[2].kind = "task" /\ st[2].parent

\* The step closes a modal: a TaskScreen posted its result (submit or cancel),
\* or the ReviewScreen posted ReviewComplete (apply) or was popped (cancel,
\* seen by the refresh pop_screen schedules).
ClosesModal ==
    \/ Len(taskQ') > Len(taskQ)
    \/ Len(reviewQ') > Len(reviewQ)
         /\ reviewQ'[Len(reviewQ')].type \in {"review_complete", "task_screen_result"}
    \/ /\ appQ' # appQ
       /\ Len(appQ') >= Len(appQ)
       /\ appQ' # <<>>
       /\ appQ'[Len(appQ')].type = "invoke_later"

\* C24: the screen stack is always [Main], [Main, TaskEdit], [Main, Review] or
\* [Main, Review, TaskEdit]; a step that closes a modal removes the top screen
\* and nothing else (when the key that opened the Task Edit screen also
\* submits it, the handler pushes and pops and the stack is as before), and a
\* step that opens one leaves the screens below it.
C24_StackDiscipline ==
    [][/\ StackShape(stack)
       /\ StackShape(stack')
       /\ ClosesModal =>
            \/ stack # <<>> /\ stack' = SubSeq(stack, 1, Len(stack) - 1)
            \/ did' = "open_edit" /\ submitted' # None /\ stack' = stack
       /\ Len(stack') < Len(stack) => stack' = SubSeq(stack, 1, Len(stack) - 1)
       /\ Len(stack') > Len(stack) => stack' = Append(stack, stack'[Len(stack')])
      ]_vars

\* The App applies a non-cancelled result to the task the Task Edit screen was
\* opened on from the Main Screen.
EditResultStep ==
    /\ AppHandles("task_screen_result")
    /\ ~Head(appQ).cancelled
    /\ ~handling_review
    /\ editing_task # NoTask

\* C25: applying a non-cancelled edit result from the Main Screen sets title,
\* description and future date of exactly the task the screen was opened on,
\* leaves the collection's order and length unchanged, appends one "Edited"
\* log entry, persists, and sends the cursor to the edited task's index.
C25_EditAppliesInPlace ==
    [][EditResultStep =>
        LET m == Head(appQ)
            id == editing_task
        IN  /\ heap' = [heap EXCEPT ![id] = Task(m.title, m.description,
                                                 heap[id].resolved, m.future_date)]
            /\ tasks' = tasks
            /\ logs' = Append(logs, LogEntry("Edited", m.title))
            /\ saved_tasks' = Saved(heap', tasks')
            /\ saved_logs' = logs'
            /\ \E i \in 1..Len(tasks) :
                 /\ tasks[i] = id
                 /\ appQ' = Tail(appQ) \o <<MoveCursor(i - 1), TaskScreenComplete>>
       ]_vars

\* The App handles an escape key while a Task Edit screen is on top: the
\* screen's escape binding runs action_cancel.
EscapeOnTaskScreen ==
    /\ status = "running"
    /\ appQ # <<>>
    /\ Head(appQ).type = "key"
    /\ Head(appQ).key = "escape"
    /\ TopKind(Cur) = "task"
    /\ UNCHANGED <<keysLeft, after_refresh>>
    /\ Len(taskQ') >= Len(taskQ)
    /\ Len(reviewQ') >= Len(reviewQ)

\* The App handles a cancelled result.
CancelledResultStep ==
    /\ AppHandles("task_screen_result")
    /\ Head(appQ).cancelled

\* C26: cancelling the Task Edit screen emits a result with cancelled = true
\* to the screen that opened it and closes the screen, and neither the cancel
\* nor the handling of its result changes the collection, a task's fields,
\* the Action Log or the persisted state.
C26_CancelChangesNothing ==
    [][/\ EscapeOnTaskScreen =>
            /\ IF Top(Cur).parent
               THEN reviewQ' = Append(reviewQ, TaskScreenResult(TRUE, "", "", NoDate))
                    /\ taskQ' = taskQ
               ELSE taskQ' = Append(taskQ, TaskScreenResult(TRUE, "", "", NoDate))
                    /\ reviewQ' = reviewQ
            /\ stack' = SubSeq(stack, 1, Len(stack) - 1)
            /\ UNCHANGED <<heap, tasks, logs, saved_tasks, saved_logs>>
       /\ CancelledResultStep =>
            /\ UNCHANGED <<heap, tasks, logs, saved_tasks, saved_logs, stack, list_index>>
            /\ editing_task' = NoTask \/ handling_review
      ]_vars

\* An add screen opened on a loaded collection was cancelled and the App has
\* handled its result: nothing was logged or changed.
C26_Witness ==
    /\ appQ = <<TaskScreenComplete>>
    /\ stack = <<>>
    /\ keysLeft = 0
    /\ logs = <<>>
    /\ Len(tasks) = MaxInit
    /\ saved_tasks = Saved(heap, tasks)
    /\ saved_logs = <<>>

\* The step ran action_submit on inputs whose title is empty after trimming.
BlankSubmitStep ==
    /\ submitted' # None
    /\ Strip(submitted'[1].title) = ""

\* C27: submitting the Task Edit screen with a title that is empty after
\* trimming emits no result, keeps the screen on top of the stack, and changes
\* neither the collection, a task's fields, the log nor the persisted state.
C27_BlankTitleIsRejected ==
    [][BlankSubmitStep =>
        /\ UNCHANGED <<taskQ, reviewQ>>
        /\ appQ' = appQ \/ (appQ # <<>> /\ appQ' = Tail(appQ))
        /\ stack' = stack
        /\ TopKind(Cur) = "task"
        /\ UNCHANGED <<heap, tasks, logs, saved_tasks, saved_logs>>
       ]_vars

\* The user typed blanks into the title of a Task Edit screen over a loaded
\* collection and pressed enter: the screen is still on top.
C27_Witness ==
    /\ submitted # None
    /\ submitted[1].title = "  "
    /\ submitted[1].description = "x "
    /\ TopKind(Cur) = "task"
    /\ tasks # <<>>
    /\ taskQ = <<>>
    /\ appQ = <<>>

\* The step ran action_submit on a title that is not empty and a date text
\* that is not empty and does not parse as day.month.year.
BadDateSubmitStep ==
    /\ submitted' # None
    /\ Strip(submitted'[1].title) # ""
    /\ Strip(submitted'[1].date) # ""
    /\ ~StrptimeDMY(Strip(submitted'[1].date))[1]

\* The App applies a non-cancelled result that carries no future date.
UndatedResultStep ==
    /\ AppHandles("task_screen_result")
    /\ ~Head(appQ).cancelled
    /\ ~handling_review
    /\ Head(appQ).future_date = NoDate

\* C28: submitting a title that is not empty with a date text that does not
\* parse still succeeds: the screen closes and emits a result without future
\* date, and applying such a result leaves the edited task (whatever date it
\* had) or the added task without a date, in memory and in what is persisted.
C28_BadDateSavesWithoutDate ==
    [][/\ BadDateSubmitStep =>
            /\ stack # <<>>
            /\ stack' = SubSeq(stack, 1, Len(stack) - 1)
            /\ taskQ' = Append(taskQ, TaskScreenResult(FALSE, Strip(submitted'[1].title),
                                   Strip(submitted'[1].description), NoDate))
       /\ UndatedResultStep =>
            LET id == IF editing_task # NoTask THEN editing_task ELSE Len(heap')
            IN  /\ id \in 1..Len(heap')
                /\ heap'[id].title = Head(appQ).title
                /\ heap'[id].future_date = NoDate
                /\ \A i \in 1..Len(tasks') :
                     tasks'[i] = id => saved_tasks'[i].future_date = "null"
      ]_vars

\* The first loaded task, which carried a date, was edited with title M and a
\* date text that does not parse: it is saved without a date.
C28_Witness ==
    /\ logs = <<LogEntry("Edited", "M")>>
    /\ heap[1] = Task("M", "", heap[1].resolved, NoDate)
    /\ tasks[1] = 1
    /\ saved_tasks[1].title = "M"
    /\ saved_tasks[1].future_date = "null"

\* The program starts and loads both files.
LoadStep ==
    /\ status \in {"start", "exited"}
    /\ status' # status

\* tasks.json holds a record that lacks a key from_dict reads with data[...].
LacksField ==
    \E i \in 1..Len(saved_tasks) :
        ~({"title", "description", "resolved"} \subseteq DOMAIN saved_tasks[i])

\* C29: loading tasks or logs never raises, and a file that is missing,
\* unreadable or not JSON, or a tasks file with a record lacking a required
\* field, loads as the empty sequence; any other file loads record by record.
C29_LoadNeverRaises ==
    [][LoadStep =>
        /\ status' = "loaded"
        /\ IF disk.tasks \in {"missing", "unreadable", "not_json"} \/ LacksField
           THEN heap' = <<>> /\ tasks' = <<>>
           ELSE /\ Len(tasks') = Len(saved_tasks)
                /\ \A i \in 1..Len(tasks') :
                     /\ heap'[tasks'[i]].title = saved_tasks[i].title
                     /\ heap'[tasks'[i]].resolved = saved_tasks[i].resolved
        /\ IF disk.logs \in {"missing", "unreadable", "not_json"}
           THEN logs' = <<>>
           ELSE logs' = saved_logs
       ]_vars

\* A run loaded a tasks.json whose second record has no title, next to a
\* logs.json that is not JSON: nothing was loaded.
C29_Witness ==
    /\ status = "loaded"
    /\ disk = [tasks |-> "json", logs |-> "not_json"]
    /\ Len(saved_tasks) = 2
    /\ "title" \in DOMAIN saved_tasks[1]
    /\ "title" \notin DOMAIN saved_tasks[2]
    /\ tasks = <<>>
    /\ logs = <<>>

\* C30: persistence round-trips: a run that starts on a tasks.json written by
\* save loads the tasks that were saved, with their title, description,
\* resolved flag and future date and in their order, and saving them again
\* leaves the file as it was.
C30_SaveLoadRoundTrip ==
    [][/\ LoadStep /\ disk.tasks = "saved" =>
            /\ status' = "loaded"
            /\ [i \in 1..Len(tasks') |-> heap'[tasks'[i]]]
                   = [i \in 1..Len(tasks) |-> heap[tasks[i]]]
       /\ status = "loaded" /\ status' = "running" /\ disk.tasks = "saved" =>
            saved_tasks' = saved_tasks
      ]_vars

\* C31: whenever a Task Edit screen is on the stack _handling_task_screen is
\* set, and whenever the Review screen is on the stack _handling_review_screen
\* is set: a TaskScreenComplete left over from a closed Task Edit screen never
\* clears the guard under a modal that is open.
C31_GuardSetUnderModal ==
    status = "running" =>
        \A i \in 1..Len(stack) :
            /\ stack[i].kind = "task" => handling_task
            /\ stack[i].kind = "review" => handling_review

\* No task instance occurs at two positions of the collection.
NoTaskTwice ==
    \A i, j \in 1..Len(tasks) : tasks[i] = tasks[j] => i = j

\* ts without the occurrences of task id, the others in their order
RECURSIVE Without(_, _)
Without(ts, id) ==
    IF ts = <<>> THEN <<>>
    ELSE IF Head(ts) = id THEN Without(Tail(ts), id)
    ELSE <<Head(ts)>> \o Without(Tail(ts), id)

\* The step dispatched move-task-up, move-task-down or toggle-resolved.
PermutingStep ==
    did' \in {"move_task_up", "move_task_down", "resolve"}

\* C34: move-task-up, move-task-down and toggle-resolved only permute the
\* collection: its length and its set of task instances are unchanged and no
\* instance occurs twice; a move changes no field, and toggle-resolved changes
\* the resolved flag of one task at most, all other tasks keeping their fields
\* and their relative order.
C34_CommandsOnlyPermute ==
    [][PermutingStep =>
        /\ Len(tasks') = Len(tasks)
        /\ {tasks'[i] : i \in 1..Len(tasks')} = {tasks[i] : i \in 1..Len(tasks)}
        /\ NoTaskTwice => NoTaskTwice'
        /\ DOMAIN heap' = DOMAIN heap
        /\ did' # "resolve" => heap' = heap
        /\ did' = "resolve" =>
             \/ heap' = heap /\ tasks' = tasks
             \/ \E id \in {tasks[i] : i \in 1..Len(tasks)} :
                  /\ heap' = [heap EXCEPT ![id].resolved = ~heap[id].resolved]
                  /\ Without(tasks', id) = Without(tasks, id)
       ]_vars

\* Toggle-resolved was dispatched on the first of two loaded tasks and moved it
\* behind the other, which kept its fields.
C34_Witness ==
    /\ did = "resolve"
    /\ tasks = <<2, 1>>
    /\ heap[1].resolved
    /\ heap[2] = Task("B", "", heap[2].resolved, NoDate)
    /\ logs = <<LogEntry("Resolved", "A")>>

\* Only the Main Screen is on the stack and nothing is pending but the
\* messages in pending.
MainSettled(pending) ==
    /\ status = "running"
    /\ stack = <<>>
    /\ appQ = pending
    /\ taskQ = <<>>
    /\ reviewQ = <<>>
    /\ after_refresh = 0

\* The command on_key has for key k when no guard flag is set.
MainCommand(k) ==
    CommandOf([handling_task |-> FALSE, handling_review |-> FALSE], k)

\* The App handles a key that is the only message pending, with only the Main
\* Screen on the stack.
NextKeyStep ==
    /\ appQ # <<>>
    /\ Head(appQ).type = "key"
    /\ MainSettled(<<Head(appQ)>>)
    /\ appQ' # appQ
    /\ UNCHANGED keysLeft

\* C36: the Main Screen is never left suspended: when only Main is on the
\* stack and every pending message has been processed, both guard flags are
\* false, and the next key is dispatched to the Main Screen command of that key.
C36_MainNeverSuspended ==
    [][/\ MainSettled(<<>>) => ~handling_task /\ ~handling_review
       /\ MainSettled(<<>>)' => ~handling_task' /\ ~handling_review'
       /\ NextKeyStep =>
            /\ ~handling_task /\ ~handling_review
            /\ did' = MainCommand(Head(appQ).key)
            /\ did' # "none" \/ Head(appQ).key = "space"
      ]_vars

\* A Task Edit screen was opened on the loaded task and submitted, its result
\* and what it posted were processed, and the key pressed next moved the
\* cursor on the Main Screen.
C36_Witness ==
    /\ MainSettled(<<>>)
    /\ logs = <<LogEntry("Edited", "A")>>
    /\ did = "cursor_down"
    /\ ~handling_task
    /\ ~handling_review

\* All resolved tasks of collection ts come after all unresolved ones.
ResolvedLast(h, ts) ==
    \A i, j \in 1..Len(ts) : i < j /\ h[ts[i]].resolved => h[ts[j]].resolved

\* The step dispatched toggle-resolved or delete-selected, or the App handled
\* ReviewComplete.
SinkingStep ==
    \/ did' \in {"resolve", "delete"}
    \/ AppHandles("review_complete")

\* C37: if all resolved tasks come after all unresolved tasks, this still
\* holds after toggle-resolved, after delete-selected and after review apply.
C37_ResolvedStayLast ==
    [][ResolvedLast(heap, tasks) /\ SinkingStep => ResolvedLast(heap', tasks')]_vars

\* With the unresolved task A before the resolved task B, toggle-resolved was
\* dispatched on B: it was reopened and moved to the front.
C37_Witness ==
    /\ did = "resolve"
    /\ logs = <<LogEntry("Unresolved", "B")>>
    /\ tasks = <<2, 1>>
    /\ ~heap[1].resolved
    /\ ~heap[2].resolved

====
